---- MODULE Spec2Model ----
(***************************************************************************)
(* Model of samcli/local/docker/manager.py: DockerContainerPool (the free  *)
(* sets and the membership index) and ContainerManager (run / stop).       *)
(*                                                                         *)
(* A sequential caller sees each pool method as one action.  Threads       *)
(* execute the methods step by step: a step is one access to the shared    *)
(* dicts and sets, since CPython runs each dict/set builtin (pop, add,     *)
(* discard, item get/set/del) atomically under the interpreter lock and    *)
(* may switch threads between any two of them; the pool has no lock of its *)
(* own.  Set objects have identity (heap), because register_container may  *)
(* bind a fresh set() to a class while another thread still holds the old  *)
(* one.  Both views are built from the same primitive operators.           *)
(***************************************************************************)
EXTENDS Integers, Sequences, FiniteSets, TLC

\* ---------------------------------------------------------------- bounds
MaxIds == 2          \* ids a direct caller of the pool uses: 1..MaxIds
NClaimers == 3       \* threads of the concurrent-claim scenario
NThreads == 2        \* threads calling run / stop
NHandles == 2        \* Container objects the threads hand to run / stop
NSeqHandles == 1     \* Container objects the single caller hands to run / stop
MaxCreated == 2      \* containers Docker creates: their ids are 1..MaxCreated

_DEFAULT_POOL_LIMIT == 4

Ids == 1..MaxIds
AllIds == 1..(IF MaxIds > MaxCreated THEN MaxIds ELSE MaxCreated)
None == 0
\* Runtime classes are non-empty strings, so `not runtime` is true only for
\* the None of a failed lookup.
Runtimes == {"python3.9", "nodejs8.10"}
NoRuntime == "None"
Claimers == 1..NClaimers
Threads == 1..NThreads
AllThreads == 1..(IF NClaimers > NThreads THEN NClaimers ELSE NThreads)
Handles == 1..(IF NHandles > NSeqHandles THEN NHandles ELSE NSeqHandles)
\* size limits handed to DockerContainerPool(size_limit) by a direct caller
PoolLimits == {0, 1}

VARIABLES
    pool,              \* the DockerContainerPool object
    th,                \* per thread: position and locals of the running method
    hist,              \* the last completed pool calls of the sequential caller
    reregistered,      \* some id was registered again under another class
    start_view,        \* the free sets and the index as the scenario starts
    mgr,               \* the ContainerManager object
    hd,                \* the Container objects (Runtime Handles)
    inv,               \* per thread: the run / stop call in progress or last made
    next_id,           \* the id Docker gives the next container it creates
    disciplined,       \* every stop so far followed a successful run, once
    audit              \* whether inv keeps the details of each call

vars == <<pool, th, hist, reregistered, start_view, mgr, hd, inv, next_id, disciplined,
          audit>>
mgrvars == <<mgr, hd, inv, next_id, disciplined, audit>>

\* ----------------------------------------------------- set and dict steps
\* __init__, line 22
KeepEmptyNever(size_limit) == FALSE
KeepEmpty(size_limit) == size_limit = 0

\* DockerContainerPool.__init__, lines 20-24.  _free_containers maps a runtime
\* to a set object (0: key absent), heap[o] is the content of set object o,
\* _containers maps an id to its runtime (NoRuntime: key absent).
NewPool(size_limit) ==
    [_pool_limit |-> size_limit,
     _keep_empty |-> KeepEmpty(size_limit),
     _free_containers |-> [r \in Runtimes |-> 0],
     heap |-> <<>>,
     _containers |-> [i \in AllIds |-> NoRuntime]]

\* set.add, lines 33 and 63
AddToNothing(s, x) == s
AddToToggle(s, x) == IF x \in s THEN s \ {x} ELSE s \cup {x}
AddTo(s, x) == s \cup {x}

\* set.discard, line 42
DiscardNothing(s, x) == s
Discard(s, x) == s \ {x}

\* what set.pop leaves behind, line 51
PopRestKeep(s, x) == s
PopRest(s, x) == s \ {x}

\* line 31: self._free_containers[runtime] = set()
NewSet(P, rt) ==
    [P EXCEPT !.heap = Append(@, {}), !._free_containers[rt] = Len(P.heap) + 1]

\* lines 33 and 63: <set object>.add(container_id)
SetAdd(P, ref, id) == [P EXCEPT !.heap[ref] = AddTo(@, id)]

\* line 42: <set object>.discard(container_id)
SetDiscard(P, ref, id) == [P EXCEPT !.heap[ref] = Discard(@, id)]

\* line 51: <set object>.pop() returning x
SetPop(P, ref, x) == [P EXCEPT !.heap[ref] = PopRest(@, x)]

\* lines 34-36
IndexPut(P, id, rt) == [P EXCEPT !._containers[id] = rt]

\* line 43
IndexDelKeep(P, id) == P
IndexDel(P, id) == [P EXCEPT !._containers[id] = NoRuntime]

\* self._containers.get(container_id, {}).get('runtime'), lines 39 and 59
RuntimeOf(P, id) == IF id \in AllIds THEN P._containers[id] ELSE NoRuntime

\* ---------------------------------- DockerContainerPool, method by method
\* register_container, lines 26-36
register_container(P, rt, id, claimed) ==
    IF P._keep_empty THEN P
    ELSE LET P1 == IF P._free_containers[rt] = 0 THEN NewSet(P, rt) ELSE P
             P2 == IF ~claimed THEN SetAdd(P1, P1._free_containers[rt], id) ELSE P1
         IN IndexPut(P2, id, rt)

\* deregister_container, lines 38-43
deregister_container(P, id) ==
    LET runtime == RuntimeOf(P, id)
    IN IF runtime = NoRuntime THEN P
       ELSE IndexDel(SetDiscard(P, P._free_containers[runtime], id), id)

\* has_available_containers, lines 45-46: "KeyError" when the class has no set
has_available_containers(P, rt) ==
    IF P._free_containers[rt] = 0 THEN "KeyError"
    ELSE IF Cardinality(P.heap[P._free_containers[rt]]) > 0 THEN "True"
    ELSE "False"

\* claim_container, lines 48-56: every outcome [pool, res] the call can have;
\* set.pop() removes an arbitrary element, KeyError becomes None
claim_container(P, rt) ==
    IF P._free_containers[rt] = 0 \/ P.heap[P._free_containers[rt]] = {}
    THEN {[pool |-> P, res |-> None]}
    ELSE {[pool |-> SetPop(P, P._free_containers[rt], x), res |-> x] :
             x \in P.heap[P._free_containers[rt]]}

\* release_container, lines 58-63
release_container(P, id) ==
    LET runtime == RuntimeOf(P, id)
    IN IF runtime = NoRuntime THEN P
       ELSE SetAdd(P, P._free_containers[runtime], id)

\* ---------------------------------------------------------------- views
\* the free ids of a class
FreeOf(P, r) == IF P._free_containers[r] = 0 THEN {} ELSE P.heap[P._free_containers[r]]
FreeSet(r) == FreeOf(pool, r)

ViewOf(P) ==
    [free |-> [r \in Runtimes |-> FreeOf(P, r)],
     known |-> {r \in Runtimes : P._free_containers[r] # 0},
     containers |-> P._containers]
PoolView == ViewOf(pool)

IdleFrame(ctx) ==
    [pc |-> "idle", ctx |-> ctx, op |-> "none", rt |-> NoRuntime, id |-> None,
     claimed |-> FALSE, runtime |-> NoRuntime, ref |-> 0, res |-> None]

\* no ContainerManager, no Container: the pool is used on its own
NoInv ==
    [call |-> "none", h |-> 0, warm |-> FALSE, rt |-> NoRuntime, image |-> <<>>,
     local |-> FALSE, pull |-> "none", cres |-> None, running |-> FALSE,
     trace |-> <<>>, err |-> "", status |-> "none",
     id |-> None, again |-> FALSE, pre |-> <<>>, released |-> None]

NoManager ==
    /\ mgr = [skip_pull_image |-> FALSE, _container_pool_size_limit |-> 0]
    /\ hd = [h \in Handles |-> [id |-> None, state |-> "new"]]
    /\ inv = [t \in AllThreads |-> NoInv]
    /\ next_id = 1
    /\ disciplined = TRUE
    /\ audit = FALSE

\* ------------------------------------------------- the sequential caller
HistRec(op, rt, id, claimed, res, out) ==
    [op |-> op, rt |-> rt, id |-> id, claimed |-> claimed,
     res |-> res, out |-> out, pre |-> PoolView]

\* The window keeps the last two calls, and a third one when the three are
\* register(c, id, claimed=False); claim(c); claim(c).
Push(h, r) ==
    IF Len(h) < 2 THEN Append(h, r)
    ELSE LET a == h[Len(h) - 1]
             b == h[Len(h)]
         IN IF /\ a.op = "register" /\ ~a.claimed
               /\ b.op = "claim" /\ b.rt = a.rt
               /\ r.op = "claim" /\ r.rt = a.rt
            THEN <<a, b, r>>
            ELSE <<b, r>>

\* The caller keeps to the contract of register_container: once an id has been
\* registered again under another class nothing more is called.
Register(rt, id, claimed) ==
    /\ ~reregistered
    /\ pool' = register_container(pool, rt, id, claimed)
    /\ reregistered' = (~pool._keep_empty /\ pool._containers[id] \notin {NoRuntime, rt})
    /\ hist' = Push(hist, HistRec("register", rt, id, claimed, None, ""))
    /\ UNCHANGED <<th, start_view, mgrvars>>

Deregister(id) ==
    /\ ~reregistered
    /\ pool' = deregister_container(pool, id)
    /\ hist' = Push(hist, HistRec("deregister", NoRuntime, id, FALSE, None, ""))
    /\ UNCHANGED <<th, reregistered, start_view, mgrvars>>

HasAvailable(rt) ==
    /\ ~reregistered
    /\ hist' = Push(hist, HistRec("has_available", rt, None, FALSE, None,
                                  has_available_containers(pool, rt)))
    /\ UNCHANGED <<pool, th, reregistered, start_view, mgrvars>>

Claim(rt) ==
    /\ ~reregistered
    /\ \E o \in claim_container(pool, rt) :
          /\ pool' = o.pool
          /\ hist' = Push(hist, HistRec("claim", rt, None, FALSE, o.res, ""))
    /\ UNCHANGED <<th, reregistered, start_view, mgrvars>>

Release(id) ==
    /\ ~reregistered
    /\ pool' = release_container(pool, id)
    /\ hist' = Push(hist, HistRec("release", NoRuntime, id, FALSE, None, ""))
    /\ UNCHANGED <<th, reregistered, start_view, mgrvars>>

InitPool ==
    /\ \E size_limit \in PoolLimits : pool = NewPool(size_limit)
    /\ th = [t \in AllThreads |-> IdleFrame("off")]
    /\ hist = <<>>
    /\ reregistered = FALSE
    /\ start_view = PoolView
    /\ NoManager

NextPool ==
    \/ \E rt \in Runtimes, id \in Ids, claimed \in BOOLEAN : Register(rt, id, claimed)
    \/ \E id \in Ids : Deregister(id)
    \/ \E rt \in Runtimes : HasAvailable(rt)
    \/ \E rt \in Runtimes : Claim(rt)
    \/ \E id \in Ids : Release(id)

SpecPool == InitPool /\ [][NextPool]_vars

\* ------------------------------- the pool methods as executed by a thread
others == <<hist, reregistered, start_view, mgrvars>>

\* where a pool method returns to
Continue(f) ==
    CASE f.ctx = "run" /\ f.op = "claim" -> "run_147"
      [] f.ctx = "run" /\ f.op = "deregister" -> "run_151"
      [] f.ctx = "run" /\ f.op = "register" -> "run_162"
      [] f.ctx = "stop" /\ f.op = "release" -> "stop_171"
      [] OTHER -> "done"

Return(t, r) ==
    th' = [th EXCEPT ![t] = [IdleFrame(th[t].ctx) EXCEPT
                            !.pc = Continue(th[t]), !.rt = th[t].rt, !.res = r]]

Goto(t, label) == th' = [th EXCEPT ![t].pc = label]

\* the frame of a call of a pool method
CallFrame(ctx, op, first, rt, id, claimed) ==
    [IdleFrame(ctx) EXCEPT !.pc = first, !.op = op, !.rt = rt, !.id = id,
                           !.claimed = claimed]

\* register_container as run calls it: claimed=True, so line 33 is skipped.
\* lines 27-30
RegCheck(t) ==
    /\ th[t].pc = "reg_check" /\ th[t].claimed
    /\ IF pool._keep_empty THEN Return(t, None)
       ELSE Goto(t, IF pool._free_containers[th[t].rt] = 0 THEN "reg_newset" ELSE "reg_index")
    /\ UNCHANGED <<pool, others>>

\* line 31
RegNewSet(t) ==
    /\ th[t].pc = "reg_newset"
    /\ pool' = NewSet(pool, th[t].rt)
    /\ Goto(t, "reg_index")
    /\ UNCHANGED others

\* lines 32-36
RegIndex(t) ==
    /\ th[t].pc = "reg_index"
    /\ pool' = IndexPut(pool, th[t].id, th[t].rt)
    /\ Return(t, None)
    /\ UNCHANGED others

\* deregister_container, lines 39-41
DeregGet(t) ==
    /\ th[t].pc = "dereg_get"
    /\ IF RuntimeOf(pool, th[t].id) = NoRuntime THEN Return(t, None)
       ELSE th' = [th EXCEPT ![t].pc = "dereg_lookup",
                             ![t].runtime = RuntimeOf(pool, th[t].id)]
    /\ UNCHANGED <<pool, others>>

\* line 42, self._free_containers[runtime]
DeregLookup(t) ==
    /\ th[t].pc = "dereg_lookup"
    /\ th' = [th EXCEPT ![t].pc = "dereg_discard",
                        ![t].ref = pool._free_containers[th[t].runtime]]
    /\ UNCHANGED <<pool, others>>

\* line 42, .discard(container_id)
DeregDiscard(t) ==
    /\ th[t].pc = "dereg_discard"
    /\ pool' = SetDiscard(pool, th[t].ref, th[t].id)
    /\ Goto(t, "dereg_del")
    /\ UNCHANGED others

\* line 43
DeregDel(t) ==
    /\ th[t].pc = "dereg_del"
    /\ pool' = IndexDel(pool, th[t].id)
    /\ Return(t, None)
    /\ UNCHANGED others

\* claim_container, line 51, self._free_containers[runtime]; KeyError: lines 54-56
ClaimLookup(t) ==
    /\ th[t].pc = "claim_lookup"
    /\ IF pool._free_containers[th[t].rt] = 0 THEN Return(t, None)
       ELSE th' = [th EXCEPT ![t].pc = "claim_pop",
                             ![t].ref = pool._free_containers[th[t].rt]]
    /\ UNCHANGED <<pool, others>>

\* line 51, .pop(), and lines 52-56
ClaimPop(t) ==
    /\ th[t].pc = "claim_pop"
    /\ IF pool.heap[th[t].ref] = {}
       THEN Return(t, None) /\ pool' = pool
       ELSE \E x \in pool.heap[th[t].ref] :
               pool' = SetPop(pool, th[t].ref, x) /\ Return(t, x)
    /\ UNCHANGED others

\* release_container, lines 59-62
RelGet(t) ==
    /\ th[t].pc = "rel_get"
    /\ IF RuntimeOf(pool, th[t].id) = NoRuntime THEN Return(t, None)
       ELSE th' = [th EXCEPT ![t].pc = "rel_lookup",
                             ![t].runtime = RuntimeOf(pool, th[t].id)]
    /\ UNCHANGED <<pool, others>>

\* line 63, self._free_containers[runtime]
RelLookup(t) ==
    /\ th[t].pc = "rel_lookup"
    /\ th' = [th EXCEPT ![t].pc = "rel_add",
                        ![t].ref = pool._free_containers[th[t].runtime]]
    /\ UNCHANGED <<pool, others>>

\* line 63, .add(container_id)
RelAdd(t) ==
    /\ th[t].pc = "rel_add"
    /\ pool' = SetAdd(pool, th[t].ref, th[t].id)
    /\ Return(t, None)
    /\ UNCHANGED others

\* ------------------------------------- threads claiming at the same time
\* the pool after register_container(c, id) for every id of S
RECURSIVE RegisterAll(_, _, _)
RegisterAll(P, c, S) ==
    IF S = {} THEN P
    ELSE LET x == CHOOSE x \in S : TRUE
         IN RegisterAll(register_container(P, c, x, FALSE), c, S \ {x})

\* a pool whose class c holds some free ids (or was never registered), and
\* NClaimers threads about to call claim_container(c)
InitClaim ==
    /\ \E c \in Runtimes, S \in SUBSET Ids :
          /\ pool = RegisterAll(NewPool(_DEFAULT_POOL_LIMIT), c, S)
          /\ th = [t \in AllThreads |->
                     IF t \in Claimers THEN [IdleFrame("claimer") EXCEPT !.rt = c]
                     ELSE IdleFrame("off")]
    /\ hist = <<>>
    /\ reregistered = FALSE
    /\ start_view = PoolView
    /\ NoManager

ClaimerCall(t) ==
    /\ th[t].ctx = "claimer" /\ th[t].pc = "idle"
    /\ th' = [th EXCEPT ![t] = CallFrame("claimer", "claim", "claim_lookup",
                                         th[t].rt, None, FALSE)]
    /\ UNCHANGED <<pool, others>>

NextClaim == \E t \in Claimers : ClaimerCall(t) \/ ClaimLookup(t) \/ ClaimPop(t)

SpecClaim == InitClaim /\ [][NextClaim]_vars

\* ------------------------------------------------------ ContainerManager
\* image names are strings, kept as sequences of characters
SamcliLambda == <<"s", "a", "m", "c", "l", "i", "/", "l", "a", "m", "b", "d", "a">>
\* a built-in image, and one whose name stops short of the reserved prefix
Images ==
    {SamcliLambda \o <<":", "p", "y">>,
     <<"s", "a", "m", "c", "l", "i", "/", "l", "a", "m", "b">>}

\* str.startswith
StartsWith(str, prefix) ==
    Len(str) >= Len(prefix) /\ SubSeq(str, 1, Len(prefix)) = prefix

\* __init__, line 90
PoolSizeLimit(skip_pull_image) == IF ~skip_pull_image THEN 0 ELSE _DEFAULT_POOL_LIMIT

\* line 124
WarmRejectedNever(warm) == FALSE
WarmRejected(warm) == warm

\* line 133
SkipPullLocalOnly(is_image_local, image_name) == is_image_local /\ mgr.skip_pull_image
SkipPull(is_image_local, image_name) ==
    (is_image_local /\ mgr.skip_pull_image) \/ StartsWith(image_name, SamcliLambda)

\* line 139: a failed pull ends run
PullFatalNever(is_image_local) == FALSE
PullFatalAlways(is_image_local) == TRUE
PullFatal(is_image_local) == ~is_image_local

\* Container.is_running(): what the handle may report about the container
\* with this id; without an id there is no container to be running
IsRunningOutcomes(id) == IF id = None THEN {FALSE} ELSE BOOLEAN

\* Container.is_created()
IsCreated(id) == id # None

\* Container.delete(): nothing to delete without an id; otherwise the
\* container is removed and the id cleared, or the removal fails
DeleteOutcomes(id) == IF id = None THEN {"ok"} ELSE {"ok", "fails"}

\* Container.create(); Container.bootstrap(); Container.start()
CreateOutcomes == {"ok", "create_fails", "bootstrap_fails"}
StartOutcomes == {"ok", "fails"}

\* A Container is "new" until its first call, "in_run" / "in_stop" inside a
\* call, "inflight" between a successful run and its stop, "idle" otherwise;
\* "unused" when the scenario has no such Container.
Busy(h) == hd[h].state \in {"in_run", "in_stop", "unused"}

\* Containers are interchangeable until first used: new ones are taken in order
NextNew(h) == hd[h].state = "new" => \A g \in Handles : g < h => hd[g].state # "new"

\* what inv keeps of a call: everything, or only what the call itself reads.
\* It keeps the free sets and the index as the call was made (pre); for a
\* stop the id the handle had (id) and whether the caller's previous call was
\* a stop of the same handle (again); for a run the id that the caller's
\* previous call, a stop, released into the class of this run (released).
Rec(i) ==
    IF audit THEN i
    ELSE [NoInv EXCEPT !.call = i.call, !.h = i.h, !.rt = i.rt, !.status = i.status]

Put(t, i) == inv' = [inv EXCEPT ![t] = Rec(i)]

\* run ends with an exception
FailMasked(t, i, e) ==
    /\ Put(t, [i EXCEPT !.status = "ok"])
    /\ th' = [th EXCEPT ![t] = IdleFrame("mgr")]
Fail(t, i, e) ==
    /\ Put(t, [i EXCEPT !.err = e, !.status = "failed"])
    /\ th' = [th EXCEPT ![t] = IdleFrame("mgr")]

pooletc == <<pool, hist, reregistered, start_view>>

\* run is called with a Container; lines 113-125
RunEnter(t, h, warm, rt) ==
    /\ th[t].ctx = "mgr" /\ th[t].pc = "idle"
    /\ disciplined
    /\ ~Busy(h) /\ hd[h].state # "inflight" /\ NextNew(h)
    /\ LET i == [NoInv EXCEPT !.call = "run", !.h = h, !.warm = warm, !.rt = rt,
                              !.status = "active", !.pre = PoolView,
                              !.released =
                                  IF inv[t].call = "stop" /\ RuntimeOf(pool, inv[t].id) = rt
                                  THEN inv[t].id ELSE None]
       IN IF WarmRejected(warm)
          THEN /\ Fail(t, i, "ValueError")
               /\ hd' = hd
          ELSE /\ Put(t, i)
               /\ th' = [th EXCEPT ![t] = [IdleFrame("run") EXCEPT !.pc = "run_127"]]
               /\ hd' = [hd EXCEPT ![h].state = "in_run"]
    /\ UNCHANGED <<pooletc, mgr, next_id, disciplined, audit>>

\* lines 127-146: has_image, the pull and its failure, then claim_container is called
RunImage(t) ==
    /\ th[t].pc = "run_127"
    /\ \E image_name \in Images, is_image_local \in BOOLEAN, pull_ok \in BOOLEAN :
          LET i == [inv[t] EXCEPT !.image = image_name, !.local = is_image_local,
                                  !.trace = Append(@, "has_image")]
              claim == CallFrame("run", "claim", "claim_lookup", i.rt, None, FALSE)
              go(j) == /\ Put(t, [j EXCEPT !.trace = Append(@, "claim_container")])
                       /\ th' = [th EXCEPT ![t] = claim]
                       /\ hd' = hd
              pulled == [i EXCEPT !.trace = Append(@, "pull_image")]
          IN IF SkipPull(is_image_local, image_name)
             THEN go([i EXCEPT !.pull = "skipped"])
             ELSE IF pull_ok
             THEN go([pulled EXCEPT !.pull = "ok"])
             ELSE IF PullFatal(is_image_local)
             THEN /\ Fail(t, [pulled EXCEPT !.pull = "failed"],
                          "DockerImagePullFailedException")
                  /\ hd' = [hd EXCEPT ![i.h].state = "idle"]
             ELSE go([pulled EXCEPT !.pull = "failed"])
    /\ UNCHANGED <<pooletc, mgr, next_id, disciplined, audit>>

\* line 149: whatever claim_container returned, the handle is discarded when
\* it does not report running
DiscardsNever(container_id, running) == FALSE
Discards(container_id, running) == ~running

\* lines 147-150: the id is taken over, is_running, deregister_container is called
RunAssign(t) ==
    /\ th[t].pc = "run_147"
    /\ LET h == inv[t].h
           container_id == th[t].res
       IN /\ hd' = [hd EXCEPT ![h].id = container_id]
          /\ \E running \in IsRunningOutcomes(container_id) :
                LET i == [inv[t] EXCEPT !.cres = container_id, !.running = running,
                                        !.trace = Append(@, "is_running")]
                IN IF Discards(container_id, running)
                   THEN /\ Put(t, [i EXCEPT !.trace = Append(@, "deregister_container")])
                        /\ th' = [th EXCEPT ![t] =
                                     CallFrame("run", "deregister", "dereg_get",
                                               NoRuntime, container_id, FALSE)]
                   ELSE /\ Put(t, i)
                        /\ th' = [th EXCEPT ![t] =
                                     [IdleFrame("run") EXCEPT !.pc = "run_154"]]
    /\ UNCHANGED <<pooletc, mgr, next_id, disciplined, audit>>

\* lines 151-152: the stale handle is deleted and its id cleared
RunDelete(t) ==
    /\ th[t].pc = "run_151"
    /\ LET h == inv[t].h
           i == [inv[t] EXCEPT !.trace = Append(@, "delete")]
       IN \E o \in DeleteOutcomes(hd[h].id) :
             IF o = "ok"
             THEN /\ hd' = [hd EXCEPT ![h].id = None]
                  /\ Put(t, i)
                  /\ th' = [th EXCEPT ![t] = [IdleFrame("run") EXCEPT !.pc = "run_154"]]
             ELSE /\ Fail(t, i, "DeleteError")
                  /\ hd' = [hd EXCEPT ![h].state = "idle"]
    /\ UNCHANGED <<pooletc, mgr, next_id, disciplined, audit>>

\* lines 154-160: is_created, create, bootstrap, register_container is called
RunCreate(t) ==
    /\ th[t].pc = "run_154"
    /\ LET h == inv[t].h
           i == [inv[t] EXCEPT !.trace = Append(@, "is_created")]
       IN IF IsCreated(hd[h].id)
          THEN /\ Put(t, i)
               /\ th' = [th EXCEPT ![t] = [IdleFrame("run") EXCEPT !.pc = "run_162"]]
               /\ UNCHANGED <<hd, next_id>>
          ELSE /\ next_id <= MaxCreated
               /\ \E o \in CreateOutcomes :
                     LET c == [i EXCEPT !.trace = Append(@, "create")]
                         b == [c EXCEPT !.trace = Append(@, "bootstrap")]
                     IN IF o = "create_fails"
                        THEN /\ Fail(t, c, "CreateError")
                             /\ hd' = [hd EXCEPT ![h].state = "idle"]
                             /\ next_id' = next_id
                        ELSE IF o = "bootstrap_fails"
                        THEN /\ Fail(t, b, "BootstrapError")
                             /\ hd' = [hd EXCEPT ![h].state = "idle", ![h].id = next_id]
                             /\ next_id' = next_id + 1
                        ELSE /\ Put(t, [b EXCEPT !.trace = Append(@, "register_container")])
                             /\ th' = [th EXCEPT ![t] =
                                          CallFrame("run", "register", "reg_check",
                                                    i.rt, next_id, TRUE)]
                             /\ hd' = [hd EXCEPT ![h].id = next_id]
                             /\ next_id' = next_id + 1
    /\ UNCHANGED <<pooletc, mgr, disciplined, audit>>

\* line 162
RunStart(t) ==
    /\ th[t].pc = "run_162"
    /\ LET h == inv[t].h
           i == [inv[t] EXCEPT !.trace = Append(@, "start")]
       IN \E o \in StartOutcomes :
             IF o = "ok"
             THEN /\ Put(t, [i EXCEPT !.status = "ok"])
                  /\ th' = [th EXCEPT ![t] = IdleFrame("mgr")]
                  /\ hd' = [hd EXCEPT ![h].state = "inflight"]
             ELSE /\ Fail(t, i, "StartError")
                  /\ hd' = [hd EXCEPT ![h].state = "idle"]
    /\ UNCHANGED <<pooletc, mgr, next_id, disciplined, audit>>

\* stop is called with a Container; lines 164-170: release_container is called
StopCall(t, h) ==
    /\ th[t].ctx = "mgr" /\ th[t].pc = "idle"
    /\ disciplined
    /\ ~Busy(h) /\ NextNew(h)
    /\ disciplined' = (hd[h].state = "inflight")
    /\ Put(t, [NoInv EXCEPT !.call = "stop", !.h = h, !.status = "active",
                             !.trace = <<"release_container">>,
                             !.id = hd[h].id, !.pre = PoolView,
                             !.again = (inv[t].call = "stop" /\ inv[t].h = h)])
    /\ th' = [th EXCEPT ![t] = CallFrame("stop", "release", "rel_get",
                                         NoRuntime, hd[h].id, FALSE)]
    /\ hd' = [hd EXCEPT ![h].state = "in_stop"]
    /\ UNCHANGED <<pooletc, mgr, next_id, audit>>

\* line 171
DeleteOnStopAlways == TRUE
DeleteOnStop == mgr._container_pool_size_limit = 0

\* lines 171-172
StopDelete(t) ==
    /\ th[t].pc = "stop_171"
    /\ LET h == inv[t].h
       IN IF DeleteOnStop
          THEN \E o \in DeleteOutcomes(hd[h].id) :
                  LET i == [inv[t] EXCEPT !.trace = Append(@, "delete")]
                  IN IF o = "ok"
                     THEN /\ Put(t, [i EXCEPT !.status = "ok"])
                          /\ th' = [th EXCEPT ![t] = IdleFrame("mgr")]
                          /\ hd' = [hd EXCEPT ![h].id = None, ![h].state = "idle"]
                     ELSE /\ Fail(t, i, "DeleteError")
                          /\ hd' = [hd EXCEPT ![h].state = "idle"]
          ELSE /\ Put(t, [inv[t] EXCEPT !.status = "ok"])
               /\ th' = [th EXCEPT ![t] = IdleFrame("mgr")]
               /\ hd' = [hd EXCEPT ![h].state = "idle"]
    /\ UNCHANGED <<pooletc, mgr, next_id, disciplined, audit>>

\* ContainerManager(skip_pull_image=...), lines 86-91, used by the threads of T
InitManager(T, keep, H) ==
    /\ \E skip_pull_image \in BOOLEAN :
          /\ mgr = [skip_pull_image |-> skip_pull_image,
                    _container_pool_size_limit |-> PoolSizeLimit(skip_pull_image)]
          /\ pool = NewPool(PoolSizeLimit(skip_pull_image))
    /\ th = [t \in AllThreads |-> IdleFrame(IF t \in T THEN "mgr" ELSE "off")]
    /\ hd = [h \in Handles |-> [id |-> None,
                                 state |-> IF h \in H THEN "new" ELSE "unused"]]
    /\ inv = [t \in AllThreads |-> NoInv]
    /\ next_id = 1
    /\ disciplined = TRUE
    /\ audit = keep
    /\ hist = <<>>
    /\ reregistered = FALSE
    /\ start_view = PoolView

NextMgr ==
    \E t \in Threads :
       \/ \E h \in Handles, warm \in BOOLEAN, rt \in Runtimes : RunEnter(t, h, warm, rt)
       \/ RunImage(t)
       \/ ClaimLookup(t) \/ ClaimPop(t)
       \/ RunAssign(t)
       \/ DeregGet(t) \/ DeregLookup(t) \/ DeregDiscard(t) \/ DeregDel(t)
       \/ RunDelete(t)
       \/ RunCreate(t)
       \/ RegCheck(t) \/ RegNewSet(t) \/ RegIndex(t)
       \/ RunStart(t)
       \/ \E h \in Handles : StopCall(t, h)
       \/ RelGet(t) \/ RelLookup(t) \/ RelAdd(t)
       \/ StopDelete(t)

\* one caller making run and stop calls one after the other
SpecRun == InitManager({1}, TRUE, 1..NSeqHandles) /\ [][NextMgr]_vars

\* one caller with NHandles Container objects and a manager that keeps
\* containers (skip_pull_image=True, pool size limit _DEFAULT_POOL_LIMIT)
InitReuse == InitManager({1}, TRUE, 1..NHandles) /\ mgr.skip_pull_image

SpecReuse == InitReuse /\ [][NextMgr]_vars

\* NThreads callers making run and stop calls at the same time
SpecMgr == InitManager(Threads, FALSE, 1..NHandles) /\ [][NextMgr]_vars

\* ------------------------------------------- properties of the pool calls
Last == hist[Len(hist)]
Prev == hist[Len(hist) - 1]

\* C3: between calls, as long as no id has been registered again under another
\* class, every id in the free set of a class is in the membership index with
\* that class recorded.
C3_FreeSubsetOfMembership ==
    ~reregistered =>
        \A c \in Runtimes : \A id \in FreeSet(c) : pool._containers[id] = c

C3_Witness ==
    /\ ~reregistered
    /\ Len(hist) >= 1
    /\ Last.op = "release"
    /\ \E c \in Runtimes : Last.id \in FreeSet(c) /\ Last.id \notin Last.pre.free[c]
    /\ \E id \in Ids : pool._containers[id] # NoRuntime /\ id \notin FreeSet(pool._containers[id])

\* the calls register(c, id, claimed=False); claim(c) have just been made
RegThenClaim ==
    /\ Len(hist) = 2
    /\ Prev.op = "register" /\ ~Prev.claimed
    /\ Last.op = "claim" /\ Last.rt = Prev.rt

\* the calls register(c, id, claimed=False); claim(c); claim(c) have just been made
RegThenClaimTwice == Len(hist) = 3

\* C4 as stated: after register_container(c, id, claimed=False) the next
\* claim_container(c) returns id and the one after it returns None, whatever
\* the pool held before.
C4_AsStated ==
    /\ RegThenClaim => Last.res = Prev.id
    /\ RegThenClaimTwice => hist[2].res = hist[1].id /\ hist[3].res = None

\* when register(c, id, claimed=False) was called the size limit was not 0
\* and no other id was free in class c
FreshFor(r) == ~pool._keep_empty /\ r.pre.free[r.rt] \subseteq {r.id}

\* C4 amended: with a nonzero size limit and no other id free in class c,
\* register_container(c, id, claimed=False) is followed by a claim_container(c)
\* that returns exactly id and by a second one that returns None.
C4_RegisterClaimClaim ==
    /\ RegThenClaim /\ FreshFor(Prev) => Last.res = Prev.id
    /\ RegThenClaimTwice /\ FreshFor(hist[1]) =>
           hist[2].res = hist[1].id /\ hist[3].res = None

C4_Witness ==
    /\ RegThenClaimTwice /\ FreshFor(hist[1])
    /\ hist[2].res = hist[1].id /\ hist[3].res = None

\* the calls release(id); claim(c) have just been made, c being the class
\* recorded for id
RelThenClaim ==
    /\ Len(hist) >= 2
    /\ Prev.op = "release" /\ Last.op = "claim"
    /\ Prev.pre.containers[Prev.id] = Last.rt

\* C5 as stated: release_container(id) followed by claim_container(c) of the
\* class of id returns id.
C5_AsStated == RelThenClaim => Last.res = Prev.id

\* C5 amended: for an id registered under class c, release_container(id)
\* followed by claim_container(c) returns an id that is free in c (none is
\* lost), and it returns id itself whenever no other id of class c is free.
C5_ReleaseThenClaim ==
    RelThenClaim =>
        /\ Last.res \in Prev.pre.free[Last.rt] \cup {Prev.id}
        /\ Prev.pre.free[Last.rt] \subseteq {Prev.id} => Last.res = Prev.id

C5_Witness ==
    /\ RelThenClaim
    /\ Prev.id \notin Prev.pre.free[Last.rt]
    /\ Prev.pre.free[Last.rt] = {}
    /\ Last.res = Prev.id

\* the calls deregister(id); release(id) have just been made
DeregThenRelease ==
    /\ Len(hist) >= 2
    /\ Prev.op = "deregister" /\ Last.op = "release" /\ Last.id = Prev.id

\* C6: deregister_container(id) followed by release_container(id) leaves the
\* pool as the deregister left it, with id in no free set and not in the
\* membership index; and a claim only ever returns an id that the index holds
\* under the claimed class, so a deregistered id is not returned.
C6_DeregisterThenRelease ==
    /\ DeregThenRelease /\ ~reregistered =>
           /\ PoolView = Last.pre
           /\ pool._containers[Last.id] = NoRuntime
           /\ \A c \in Runtimes : Last.id \notin FreeSet(c)
    /\ Len(hist) >= 1 /\ Last.op = "claim" /\ Last.res # None /\ ~reregistered =>
           Last.pre.containers[Last.res] = Last.rt

C6_Witness ==
    /\ DeregThenRelease /\ ~reregistered
    /\ Prev.pre.containers[Prev.id] # NoRuntime
    /\ Prev.id \in Prev.pre.free[Prev.pre.containers[Prev.id]]
    /\ PoolView = Last.pre

\* C7 as stated: with size limit 0 no free set holds an id and
\* has_available_containers returns false for every class.
C7_AsStated ==
    pool._pool_limit = 0 =>
        /\ \A c \in Runtimes : FreeSet(c) = {}
        /\ Len(hist) >= 1 /\ Last.op = "has_available" => Last.out = "False"

\* C7 amended: with size limit 0 no free set holds an id (no class even has a
\* free set, and the index stays empty), and has_available_containers never
\* returns true: it raises KeyError for every class.
C7_KeepEmpty ==
    pool._pool_limit = 0 =>
        /\ \A c \in Runtimes : FreeSet(c) = {} /\ pool._free_containers[c] = 0
        /\ \A id \in Ids : pool._containers[id] = NoRuntime
        /\ Len(hist) >= 1 /\ Last.op = "has_available" => Last.out = "KeyError"

C7_Witness ==
    /\ pool._pool_limit = 0
    /\ Len(hist) >= 2
    /\ Prev.op = "register" /\ ~Prev.claimed
    /\ Last.op = "has_available" /\ Last.rt = Prev.rt

\* ------------------------------------------------ concurrent claims
ClaimClass == th[1].rt
AllClaimed == \A t \in Claimers : th[t].pc = "done"
Winners == {t \in Claimers : th[t].res # None}

\* C1: when the N threads have all returned from claim_container(c), called
\* against a free set of K < N ids, exactly K of them hold an id, the other
\* N - K got None, and no id went to two of them.
C1_ConcurrentClaims ==
    LET K == Cardinality(start_view.free[ClaimClass])
    IN AllClaimed /\ K < NClaimers =>
          /\ Cardinality(Winners) = K
          /\ Cardinality(Claimers \ Winners) = NClaimers - K
          /\ \A t1, t2 \in Winners : t1 # t2 => th[t1].res # th[t2].res
          /\ {th[t].res : t \in Winners} = start_view.free[ClaimClass]

C1_Witness ==
    /\ AllClaimed
    /\ Cardinality(start_view.free[ClaimClass]) = 2
    /\ Cardinality(Winners) = 2

\* ------------------------------------------------ concurrent run and stop
\* the thread inside run or stop with handle h
RunnerOf(h) == CHOOSE t \in Threads : th[t].ctx \in {"run", "stop"} /\ inv[t].h = h

\* The id the invocation of handle h holds: from the moment its run got the
\* id from claim_container or create until its stop has released it.
Held(h) ==
    CASE hd[h].state = "in_run" ->
            LET t == RunnerOf(h)
            IN IF th[t].pc \in {"run_127", "claim_lookup", "claim_pop"} THEN None
               ELSE IF th[t].pc = "run_147" THEN th[t].res
               ELSE hd[h].id
      [] hd[h].state = "inflight" -> hd[h].id
      [] hd[h].state = "in_stop" ->
            IF th[RunnerOf(h)].pc = "stop_171" THEN None ELSE hd[h].id
      [] OTHER -> None

\* C2: as long as every stop follows the successful run of its handle, once,
\* no container id is held by two invocations at the same time, under every
\* interleaving of the threads' run and stop calls.
C2_OneOwner ==
    disciplined =>
        \A h1, h2 \in Handles : h1 # h2 /\ Held(h1) # None => Held(h1) # Held(h2)

\* two threads are in run for the same class while one id is free: one has
\* been given the id that an earlier invocation created and released, the
\* other has been told that none is available
C2_Witness ==
    /\ disciplined
    /\ next_id = 2
    /\ \E t1, t2 \in Threads :
          /\ th[t1].pc = "run_147" /\ th[t1].res = 1
          /\ th[t2].pc = "run_147" /\ th[t2].res = None
          /\ inv[t1].rt = inv[t2].rt

\* ------------------------------------------------------- one run at a time
CollaboratorErrors == {"DeleteError", "CreateError", "BootstrapError", "StartError"}

\* C8: run with warm=true fails with the invalid-usage error (ValueError)
\* whatever the pool holds, before any effect: no call is made on the image
\* provider, the pool or the handle, and the pool, the handles and Docker's
\* containers are as they were.
C8_WarmRejected ==
    /\ [](\A t \in Threads :
             inv[t].call = "run" /\ inv[t].warm =>
                /\ inv[t].status = "failed" /\ inv[t].err = "ValueError"
                /\ inv[t].trace = <<>>
                /\ th[t].pc = "idle")
    /\ [][\A t \in Threads :
             th[t].pc = "idle" /\ inv'[t] # inv[t] /\ inv'[t].call = "run" /\ inv'[t].warm =>
                pool' = pool /\ hd' = hd /\ next_id' = next_id]_vars

C8_Witness ==
    /\ inv[1].call = "run" /\ inv[1].warm /\ inv[1].err = "ValueError"
    /\ \E c \in Runtimes : FreeSet(c) # {}

\* C9: when the image is not local and the pull fails, run fails with
\* DockerImagePullFailedException having called only has_image and pull_image:
\* nothing is claimed, registered, deregistered, created or started, and the
\* step that fails leaves the pool, the handle's id and Docker's containers
\* as they were.
C9_PullFailsNoImage ==
    /\ [](\A t \in Threads :
             inv[t].call = "run" /\ inv[t].pull = "failed" /\ ~inv[t].local =>
                /\ inv[t].status = "failed"
                /\ inv[t].err = "DockerImagePullFailedException"
                /\ inv[t].trace = <<"has_image", "pull_image">>
                /\ th[t].pc = "idle")
    /\ [][\A t \in Threads :
             th[t].pc = "run_127" /\ inv'[t].err = "DockerImagePullFailedException" =>
                pool' = pool /\ hd'[inv[t].h].id = hd[inv[t].h].id /\ next_id' = next_id]_vars

C9_Witness ==
    /\ inv[1].call = "run" /\ inv[1].pull = "failed" /\ ~inv[1].local
    /\ inv[1].err = "DockerImagePullFailedException"
    /\ \E c \in Runtimes : FreeSet(c) # {}

\* C10: when the image is local and the attempted pull fails, run does not
\* fail for it: it goes on to claim_container, and it ends Started, start
\* being its last call, unless a call on the handle itself raises.
C10_PullFailsLocalImage ==
    \A t \in Threads :
       inv[t].call = "run" /\ inv[t].pull = "failed" /\ inv[t].local =>
          /\ inv[t].err # "DockerImagePullFailedException"
          /\ SubSeq(inv[t].trace, 1, 3) = <<"has_image", "pull_image", "claim_container">>
          /\ inv[t].status = "failed" => inv[t].err \in CollaboratorErrors
          /\ inv[t].status = "ok" => inv[t].trace[Len(inv[t].trace)] = "start"
          /\ th[t].pc = "idle" => inv[t].status \in {"ok", "failed"}

C10_Witness ==
    /\ inv[1].call = "run" /\ inv[1].pull = "failed" /\ inv[1].local
    /\ inv[1].status = "ok"
    /\ inv[1].trace[Len(inv[1].trace)] = "start"
    /\ hd[inv[1].h].state = "inflight" /\ hd[inv[1].h].id # None

\* the calls of one kind that a run or stop has made
Calls(t, name) == {k \in 1..Len(inv[t].trace) : inv[t].trace[k] = name}
Called(t, name) == Calls(t, name) # {}

\* the image name begins with samcli/lambda
BuiltIn(image_name) ==
    /\ Len(image_name) >= Len(SamcliLambda)
    /\ \A k \in 1..Len(SamcliLambda) : image_name[k] = SamcliLambda[k]

\* C11: in a run with warm=false the pull is skipped exactly when (the image
\* is local and the manager skips pulls) or the image name starts with
\* samcli/lambda; otherwise pull_image is called exactly once.
C11_PullDecision ==
    \A t \in Threads :
       inv[t].call = "run" /\ ~inv[t].warm /\ inv[t].pull # "none" =>
          LET skip == (inv[t].local /\ mgr.skip_pull_image) \/ BuiltIn(inv[t].image)
          IN /\ (inv[t].pull = "skipped") <=> skip
             /\ Cardinality(Calls(t, "pull_image")) = IF skip THEN 0 ELSE 1
             /\ Cardinality(Calls(t, "has_image")) = 1

\* a built-in image that is not local is not pulled, and the run starts
C11_Witness ==
    /\ inv[1].call = "run" /\ inv[1].pull = "skipped"
    /\ ~inv[1].local /\ BuiltIn(inv[1].image)
    /\ ~Called(1, "pull_image")
    /\ inv[1].status = "ok"

\* what run called from claim_container on
FromClaim(t) ==
    LET k == CHOOSE k \in Calls(t, "claim_container") : TRUE
    IN SubSeq(inv[t].trace, k, Len(inv[t].trace))

\* run was given an id by claim_container and the handle reported not running
StaleRun(t) ==
    /\ inv[t].call = "run" /\ inv[t].cres # None
    /\ Called(t, "is_running") /\ ~inv[t].running

Ended(t) == th[t].pc = "idle" /\ inv[t].status \in {"ok", "failed"}

\* C12: when claim_container gave run a free id of the class and the handle
\* with that id is not running, then after run the stale id is in no free set
\* and not in the membership index; and a run that succeeds has deregistered
\* it, deleted the handle, created and bootstrapped a new one, registered the
\* new id as claimed (in the index, not free) and started it.
C12_StaleReplaced ==
    \A t \in Threads :
       StaleRun(t) /\ Ended(t) =>
          LET h == inv[t].h
              stale == inv[t].cres
          IN /\ pool._containers[stale] = NoRuntime
             /\ \A c \in Runtimes : stale \notin FreeSet(c)
             /\ inv[t].status = "ok" =>
                   /\ FromClaim(t) = <<"claim_container", "is_running",
                                       "deregister_container", "delete", "is_created",
                                       "create", "bootstrap", "register_container",
                                       "start">>
                   /\ hd[h].id \notin {None, stale}
                   /\ pool._containers[hd[h].id] = inv[t].rt
                   /\ \A c \in Runtimes : hd[h].id \notin FreeSet(c)

C12_Witness ==
    /\ StaleRun(1) /\ Ended(1) /\ inv[1].status = "ok"
    /\ inv[1].cres = 1 /\ hd[inv[1].h].id = 2
    /\ start_view.free = [c \in Runtimes |-> {}]

\* C13 as the specification states it: a delete that raises while run discards
\* a stale handle is not fatal, so no run ends with the error of that delete;
\* a run that was given a stale id ends Started unless create, bootstrap or
\* start raises.
C13_AsStated ==
    \A t \in Threads :
       StaleRun(t) /\ Ended(t) =>
          /\ inv[t].err # "DeleteError"
          /\ inv[t].status = "failed" =>
                inv[t].err \in {"CreateError", "BootstrapError", "StartError"}

\* what the code does: the error of delete() at line 151 ends run, with the
\* stale id still on the handle and nothing created or started
C13_Witness ==
    /\ StaleRun(1) /\ Ended(1)
    /\ inv[1].status = "failed" /\ inv[1].err = "DeleteError"
    /\ inv[1].trace[Len(inv[1].trace)] = "delete"
    /\ hd[inv[1].h].id = inv[1].cres
    /\ ~Called(1, "create") /\ ~Called(1, "start")

C15_StopIdempotent ==
    \A t \in Threads :
       inv[t].call = "stop" =>
          /\ inv[t].again => PoolView = inv[t].pre
          /\ (inv[t].id = None \/ inv[t].pre.containers[inv[t].id] = NoRuntime) =>
                PoolView = inv[t].pre

\* the second of two stops of a handle whose id is in the pool has returned
C15_Witness ==
    /\ inv[1].call = "stop" /\ Ended(1) /\ inv[1].again
    /\ inv[1].id # None /\ RuntimeOf(pool, inv[1].id) # NoRuntime
    /\ inv[1].id \in FreeSet(RuntimeOf(pool, inv[1].id))
    /\ PoolView = inv[1].pre

\* C16: with pool size limit 0 the free sets and the membership index are
\* empty in every state run and stop calls lead to, claim_container gives
\* every run None, and every run that succeeds has called create and
\* bootstrap.
C16_ZeroCapacity ==
    mgr._container_pool_size_limit = 0 =>
       /\ \A c \in Runtimes : FreeSet(c) = {}
       /\ \A id \in AllIds : pool._containers[id] = NoRuntime
       /\ \A t \in Threads :
             inv[t].call = "run" =>
                /\ inv[t].cres = None
                /\ inv[t].status = "ok" =>
                      /\ Cardinality(Calls(t, "create")) = 1
                      /\ Cardinality(Calls(t, "bootstrap")) = 1

\* a later run of the handle has created a second container
C16_Witness ==
    /\ mgr._container_pool_size_limit = 0
    /\ inv[1].call = "run" /\ inv[1].status = "ok"
    /\ Called(1, "create") /\ Called(1, "bootstrap")
    /\ hd[inv[1].h].id = 2 /\ next_id = 3

\* ----------------------------------------------------------------- reuse
\* run directly follows a stop that released an id into the class of this run,
\* and the handle, given the claimed id, reports running
ReuseRun(t) ==
    /\ inv[t].call = "run" /\ inv[t].released # None
    /\ Called(t, "is_running") /\ inv[t].running

\* C17 as the specification states it: the run takes that same id.
C17_AsStated ==
    \A t \in Threads : ReuseRun(t) => inv[t].cres = inv[t].released

\* C17: with a nonzero pool size limit, a run for class c that directly
\* follows a stop which released an id into the free set of c, and whose
\* handle reports running, takes an id that was free in c (that same id when
\* no other was), calls neither deregister_container, delete, create,
\* bootstrap nor register_container, and, when it succeeds, has called start
\* right after is_created; the id taken is then on the handle, in the
\* membership index under c and not in the free set.
C17_ReuseFree ==
    \A t \in Threads :
       ReuseRun(t) =>
          LET id == inv[t].cres
              c == inv[t].rt
          IN /\ mgr._container_pool_size_limit # 0
             /\ inv[t].released \in inv[t].pre.free[c]
             /\ id \in inv[t].pre.free[c]
             /\ inv[t].pre.free[c] = {inv[t].released} => id = inv[t].released
             /\ \A name \in {"deregister_container", "delete", "create", "bootstrap",
                               "register_container"} : ~Called(t, name)
             /\ hd[inv[t].h].id = id
             /\ pool._containers[id] = c
             /\ id \notin FreeSet(c)
             /\ inv[t].status = "ok" =>
                   FromClaim(t) = <<"claim_container", "is_running", "is_created", "start">>
             /\ inv[t].status = "failed" => inv[t].err = "StartError"

\* the released id was the only free one, and the run that took it has started
C17_Witness ==
    /\ ReuseRun(1) /\ Ended(1) /\ inv[1].status = "ok"
    /\ inv[1].pre.free[inv[1].rt] = {inv[1].released}
    /\ inv[1].cres = inv[1].released
    /\ hd[inv[1].h].state = "inflight"

Tracked == {id \in AllIds : pool._containers[id] # NoRuntime}
Free == UNION {FreeSet(c) : c \in Runtimes}

\* C19 as the specification states it: with a nonzero size limit the pool
\* never tracks more ids, nor holds more free ids, than the limit.
C19_AsStated ==
    pool._pool_limit # 0 =>
       /\ Cardinality(Tracked) <= pool._pool_limit
       /\ Cardinality(Free) <= pool._pool_limit

\* what the code does: a pool of size limit 1 tracks two ids, both free
C19_Witness ==
    /\ pool._pool_limit = 1 /\ ~reregistered
    /\ Cardinality(Tracked) = 2
    /\ Cardinality(Free) = 2

\* ------------------------------------------------- create and bootstrap
\* the last call a run or stop made
LastCall(t) == inv[t].trace[Len(inv[t].trace)]

\* run ended in create or in bootstrap: that call raised
CreateFailed(t) ==
    /\ inv[t].call = "run" /\ Ended(t)
    /\ inv[t].trace # <<>> /\ LastCall(t) \in {"create", "bootstrap"}

\* C20: when create or bootstrap raises in run, run ends with that error,
\* start and register_container are not called, and the pool holds no id it
\* did not hold when run was called: the id of the new container is neither
\* in the membership index nor in a free set.
C20_CreateFailurePropagates ==
    \A t \in Threads :
       CreateFailed(t) =>
          /\ inv[t].status = "failed"
          /\ inv[t].err = IF LastCall(t) = "create" THEN "CreateError" ELSE "BootstrapError"
          /\ ~Called(t, "start") /\ ~Called(t, "register_container")
          /\ \A id \in Tracked : inv[t].pre.containers[id] # NoRuntime
          /\ \A c \in Runtimes : FreeSet(c) \subseteq inv[t].pre.free[c]
          /\ hd[inv[t].h].id # None =>
                hd[inv[t].h].id \notin Tracked \cup Free

\* bootstrap raised for the container created in place of a stale one
C20_Witness ==
    /\ CreateFailed(1) /\ inv[1].err = "BootstrapError"
    /\ mgr._container_pool_size_limit # 0
    /\ inv[1].cres # None
    /\ hd[inv[1].h].id \notin {None, inv[1].cres}

====
